---- MODULE Spec2Model ----
(***************************************************************************)
(* Model of src/lib/validation/schema.js: the schema rules that normalize  *)
(* code blocks (container nodes holding line nodes) of a Slate document.   *)
(*                                                                         *)
(* The document is an arena: tree[k] is the node with key k, a record      *)
(* [kind, text, nodes] where nodes is the ordered list of its children's   *)
(* keys.  Key 0 is the document.  The editor operations insertNodeByKey,   *)
(* removeNodeByKey and moveNodeByKey edit the arena one operation per      *)
(* step; withoutNormalizing scopes are counted in suppress.                *)
(***************************************************************************)
EXTENDS Integers, Sequences, FiniteSets, TLC

\* ---------------------------------------------------------------- bounds
\* Number of nodes below the document in an initial tree of any shape.
MaxNodes == 3
\* Number of children of the document in an initial tree without containers.
MaxFlat == 6
\* Number of children of the container in an initial tree holding only it.
MaxInner == 4
\* Number of line nodes the reparse collaborator may return for one text.
MaxDerived == 2

\* ------------------------------------------------------------- constants
Root == 0

CHILD_OBJECT_INVALID == "child_object_invalid"
CHILD_TYPE_INVALID == "child_type_invalid"
PARENT_OBJECT_INVALID == "parent_object_invalid"
PARENT_TYPE_INVALID == "parent_type_invalid"
\* A violation code the rules do not import: it reaches the default branch.
CHILD_REQUIRED == "child_required"

Codes == {CHILD_OBJECT_INVALID, CHILD_TYPE_INVALID, PARENT_OBJECT_INVALID,
          PARENT_TYPE_INVALID, CHILD_REQUIRED}

\* opts.containerType and opts.lineType
containerType == "container"
lineType == "line"

VARIABLES
    tree,       \* the document: key -> [kind, text, nodes]
    nextKey,    \* the next key regenerateKey() hands out
    pc,         \* position of the running handler, "idle" when none runs
    rule,       \* the rule whose normalize runs: "container" or "line"
    fn,         \* the repair normalize called: "onlyLine", "noOrphanLine", "none"
    error,      \* the violation handed to normalize: [code, node, parent]
    snap,       \* the document as it was when normalize was entered
    groups,     \* the groups getSuccessiveNodes returned (lists of keys)
    gi,         \* index of the group being processed (1-based)
    j,          \* index inside the group / inside codeLines (0-based)
    cur,        \* per group locals: [parent, index, lines, container]
    suppress,   \* number of open withoutNormalizing scopes
    ret,        \* what the last normalize returned
    log,        \* the editor operations issued by the running invocation
    made,       \* per processed group, the keys of the nodes created for it
    texts       \* per processed group, the text handed to deserializeCode

vars == <<tree, nextKey, pc, rule, fn, error, snap, groups, gi, j, cur,
          suppress, ret, log, made, texts>>

\* ------------------------------------------------------- sequence helpers
Min(a, b) == IF a < b THEN a ELSE b
Max(a, b) == IF a > b THEN a ELSE b

SeqsUpTo(S, n) == UNION {[1..m -> S] : m \in 0..n}

Skip(s, n) == SubSeq(s, n + 1, Len(s))

RECURSIVE Flatten(_)
Flatten(ss) == IF ss = <<>> THEN <<>> ELSE Head(ss) \o Flatten(Tail(ss))

Range(s) == {s[i] : i \in 1..Len(s)}

\* Immutable List.indexOf: 0-based index of the first occurrence, -1 if none.
IndexOf(s, x) ==
    IF \E i \in 1..Len(s) : s[i] = x
    THEN (CHOOSE i \in 1..Len(s) : s[i] = x /\ \A m \in 1..(i - 1) : s[m] # x) - 1
    ELSE -1

\* Immutable List.splice(index, 0, x): the index is resolved as resolveBegin
\* does (negative counts from the end, too large is clamped to the size).
Splice(s, index, x) ==
    LET at == IF index < 0 THEN Max(0, Len(s) + index) ELSE Min(Len(s), index)
    IN SubSeq(s, 1, at) \o <<x>> \o Skip(s, at)

Without(s, x) == SelectSeq(s, LAMBDA y : y # x)

\* ----------------------------------------------------------- tree helpers
Keys(t) == DOMAIN t

HasParent(t, k) == \E p \in Keys(t) : k \in Range(t[p].nodes)
getParent(t, k) == CHOOSE p \in Keys(t) : k \in Range(t[p].nodes)

RECURSIVE Descendants(_, _)
Descendants(t, k) ==
    Range(t[k].nodes) \cup UNION {Descendants(t, c) : c \in Range(t[k].nodes)}

\* node.text: the concatenated text of the node's leaves
RECURSIVE Text(_, _)
Text(t, k) ==
    IF t[k].nodes = <<>> THEN t[k].text
    ELSE Flatten([i \in 1..Len(t[k].nodes) |-> Text(t, t[k].nodes[i])])

\* The node with key k together with everything below it.
Subtree(t, k) == [d \in Descendants(t, k) \cup {k} |-> t[d]]

\* Immutable value equality of the node k of t1 with the node k of t2
SameNode(t1, t2, k) ==
    k \in Keys(t1) /\ k \in Keys(t2) /\ Subtree(t1, k) = Subtree(t2, k)

\* Mutants: the comparison of each predicate is inverted.
isLine_Inverted(t, k) == t[k].kind # lineType
isNotLine_Inverted(t, k) == t[k].kind = lineType

isLine(t, k) == t[k].kind = lineType
isNotLine(t, k) == t[k].kind # lineType

\* ------------------------------------------------------ editor operations
insertNodeByKey(t, parentKey, index, key, node) ==
    [k \in Keys(t) \cup {key} |->
        IF k = key THEN node
        ELSE IF k = parentKey
             THEN [t[k] EXCEPT !.nodes = Splice(t[k].nodes, index, key)]
             ELSE t[k]]

removeNodeByKey(t, key) ==
    LET gone == Descendants(t, key) \cup {key}
    IN [k \in Keys(t) \ gone |->
            [t[k] EXCEPT !.nodes = Without(t[k].nodes, key)]]

\* Mutant: the node is put under its new parent but left under the old one.
moveNodeByKey_NoRemove(t, key, newKey, newIndex) ==
    [t EXCEPT ![newKey].nodes = Splice(t[newKey].nodes, newIndex, key)]

moveNodeByKey(t, key, newKey, newIndex) ==
    LET removed == [k \in Keys(t) |->
                        [t[k] EXCEPT !.nodes = Without(t[k].nodes, key)]]
    IN [removed EXCEPT ![newKey].nodes = Splice(removed[newKey].nodes, newIndex, key)]

\* ------------------------------------------------------------- the grouper
\* The predicate is given as the set of nodes that satisfy it.
\* Mutant: the run is cut after its first node.
takeWhile_One(nodes, match) ==
    IF nodes # <<>> /\ Head(nodes) \in match THEN <<Head(nodes)>> ELSE <<>>

RECURSIVE takeWhile(_, _)
takeWhile(nodes, match) ==
    IF nodes # <<>> /\ Head(nodes) \in match
    THEN <<Head(nodes)>> \o takeWhile(Tail(nodes), match)
    ELSE <<>>

RECURSIVE takeUntil(_, _)
takeUntil(nodes, match) ==
    IF nodes # <<>> /\ Head(nodes) \notin match
    THEN <<Head(nodes)>> \o takeUntil(Tail(nodes), match)
    ELSE <<>>

\* Mutant: the recursion on the rest of the nodes is lost.
getSuccessiveNodes_FirstOnly(nodes, match) ==
    LET afterNonLines == Skip(nodes, Len(takeUntil(nodes, match)))
    IN IF afterNonLines = <<>> THEN <<>>
       ELSE <<takeWhile(afterNonLines, match)>>

\* Mutant: the group is put after the groups of the rest of the nodes.
RECURSIVE getSuccessiveNodes_RestFirst(_, _)
getSuccessiveNodes_RestFirst(nodes, match) ==
    LET nonLines == takeUntil(nodes, match)
        afterNonLines == Skip(nodes, Len(nonLines))
    IN IF afterNonLines = <<>> THEN <<>>
       ELSE LET firstGroup == takeWhile(afterNonLines, match)
                restOfNodes == Skip(afterNonLines, Len(firstGroup))
            IN getSuccessiveNodes_RestFirst(restOfNodes, match) \o <<firstGroup>>

RECURSIVE getSuccessiveNodes(_, _)
getSuccessiveNodes(nodes, match) ==
    LET nonLines == takeUntil(nodes, match)
        afterNonLines == Skip(nodes, Len(nonLines))
    IN IF afterNonLines = <<>> THEN <<>>
       ELSE LET firstGroup == takeWhile(afterNonLines, match)
                restOfNodes == Skip(afterNonLines, Len(firstGroup))
            IN <<firstGroup>> \o getSuccessiveNodes(restOfNodes, match)

\* The grouper as a scan from left to right with a cursor, the group being
\* collected and the groups closed so far: a passing node joins the current
\* group, a failing node closes it, and the end of the input closes it too.
RECURSIVE scanGroups(_, _, _, _, _)
scanGroups(nodes, match, cursor, current, acc) ==
    LET closed == IF current = <<>> THEN acc ELSE Append(acc, current)
    IN IF cursor > Len(nodes) THEN closed
       ELSE IF nodes[cursor] \in match
            THEN scanGroups(nodes, match, cursor + 1,
                            Append(current, nodes[cursor]), acc)
            ELSE scanGroups(nodes, match, cursor + 1, <<>>, closed)

iterativeGroups(nodes, match) == scanGroups(nodes, match, 1, <<>>, <<>>)

\* -------------------------------------------------- the reparse collaborator
\* deserializeCode(opts, text).nodes: n line texts cut from the text, the
\* first n - 1 of one character each and the last holding the rest.
deserializeCode(text, n) ==
    [i \in 1..n |->
        IF i < n
        THEN (IF i <= Len(text) THEN <<text[i]>> ELSE <<>>)
        ELSE Skip(text, Min(Len(text), n - 1))]

\* ------------------------------------------------------------ initial trees
RootKinds == {containerType, lineType, "para"}

InnerKinds(kind) ==
    IF kind = containerType THEN {lineType, "text", "para"}
    ELSE IF kind = "para" THEN {lineType, "text"}
    ELSE {}

Blocks(b) ==
    {[kind |-> k, inner |-> in] :
        k \in RootKinds, in \in SeqsUpTo({lineType, "text", "para"}, b - 1)}

Size(blk) == 1 + Len(blk.inner)

WellFormedBlock(blk) == Range(blk.inner) \subseteq InnerKinds(blk.kind)

RECURSIVE Forest(_)
Forest(b) ==
    {<<>>} \cup
    (IF b = 0 THEN {}
     ELSE UNION {{<<blk>> \o rest : rest \in Forest(b - Size(blk))} :
                    blk \in {x \in Blocks(b) : WellFormedBlock(x)}})

\* A document whose children are childless lines and paragraphs.
FlatForest(n) ==
    {[i \in 1..Len(ks) |-> [kind |-> ks[i], inner |-> <<>>]] :
        ks \in SeqsUpTo({lineType, "para"}, n)}

\* A document holding one container with up to n children.
ContainerForest(n) ==
    {<<[kind |-> containerType, inner |-> in]>> :
        in \in SeqsUpTo(InnerKinds(containerType), n)}

InitialForests ==
    Forest(MaxNodes) \cup FlatForest(MaxFlat) \cup ContainerForest(MaxInner)

RECURSIVE Off(_, _)
Off(f, i) == IF i = 1 THEN 1 ELSE Off(f, i - 1) + Size(f[i - 1])

Total(f) == IF f = <<>> THEN 0 ELSE Off(f, Len(f)) + Size(f[Len(f)]) - 1

Leaf(kind, k) ==
    [kind |-> kind,
     text |-> IF kind \in {lineType, "text"} THEN <<k>> ELSE <<>>,
     nodes |-> <<>>]

Arena(f) ==
    [k \in 0..Total(f) |->
        IF k = Root
        THEN [kind |-> "document", text |-> <<>>,
              nodes |-> [i \in 1..Len(f) |-> Off(f, i)]]
        ELSE LET i == CHOOSE x \in 1..Len(f) :
                        Off(f, x) <= k /\ k < Off(f, x) + Size(f[x])
             IN IF k = Off(f, i)
                THEN IF f[i].inner = <<>> THEN Leaf(f[i].kind, k)
                     ELSE [kind |-> f[i].kind, text |-> <<>>,
                           nodes |-> [m \in 1..Len(f[i].inner) |-> k + m]]
                ELSE Leaf(f[i].inner[k - Off(f, i)], k)]

NoCur == [parent |-> -1, index |-> -1, lines |-> <<>>, container |-> -1]
NoError == [code |-> "none", node |-> -1, parent |-> -1]

Init ==
    /\ \E f \in InitialForests : tree = Arena(f) /\ nextKey = Total(f) + 1
    /\ pc = "idle"
    /\ rule = "none"
    /\ fn = "none"
    /\ error = NoError
    /\ snap = tree
    /\ groups = <<>>
    /\ gi = 1
    /\ j = 0
    /\ cur = NoCur
    /\ suppress = 0
    /\ ret = "none"
    /\ log = <<>>
    /\ made = <<>>
    /\ texts = <<>>

\* ------------------------------------------------------------ op log
Op(name, key, target, index) ==
    [op |-> name, key |-> key, target |-> target, index |-> index]
OpenOp == Op("open", -1, -1, -1)
CloseOp == Op("close", -1, -1, -1)

\* -------------------------------------------------------- schema dispatch
\* Mutant: the first case label has lost its fall-through.
containerNormalize_NoFallthrough(code) ==
    IF code = CHILD_TYPE_INVALID THEN "onlyLine" ELSE "undefined"

\* blocks[opts.containerType].normalize
containerNormalize(code) ==
    IF code \in {CHILD_OBJECT_INVALID, CHILD_TYPE_INVALID}
    THEN "onlyLine" ELSE "undefined"

\* blocks[opts.lineType].normalize
lineNormalize(code) ==
    IF code \in {PARENT_OBJECT_INVALID, PARENT_TYPE_INVALID}
    THEN "noOrphanLine" ELSE "undefined"

\* The nodes that have a child list (text leaves have none).
HasNodes(t) == {k \in Keys(t) : t[k].kind # "text"}

FirstLineOf(t, p) ==
    LET ls == SelectSeq(t[p].nodes, LAMBDA c : isLine(t, c))
    IN IF ls = <<>> THEN -1 ELSE Head(ls)

\* The violation records the container rule can be handed: the rule is
\* registered for blocks of containerType, so error.node is a container.
ContainerErrors(t) ==
    {[code |-> c, node |-> k, parent |-> getParent(t, k)] :
        c \in Codes, k \in {x \in Keys(t) : t[x].kind = containerType}}

\* The violation records the line rule can be handed: error.parent is a node
\* that is no container (a container is a valid parent of a line).
LineErrors(t) ==
    {[code |-> c, node |-> FirstLineOf(t, p), parent |-> p] :
        c \in Codes, p \in {x \in HasNodes(t) : t[x].kind # containerType}}

\* The host runs its validator when no repair runs and no scope is open.
CanEnter == pc = "idle" /\ suppress = 0

\* Entry of a normalize function: the invocation's locals are fresh.
Enter(r, err) ==
    /\ CanEnter
    /\ rule' = r
    /\ error' = err
    /\ snap' = tree
    /\ gi' = 1
    /\ j' = 0
    /\ cur' = NoCur
    /\ log' = <<>>
    /\ made' = <<>>
    /\ texts' = <<>>
    /\ UNCHANGED <<tree, nextKey, suppress>>

\* The host takes the returned value; the violation record and the
\* invocation's locals are dropped.
Discard ==
    /\ pc = "done"
    /\ pc' = "idle"
    /\ rule' = "none"
    /\ fn' = "none"
    /\ error' = NoError
    /\ snap' = tree
    /\ groups' = <<>>
    /\ gi' = 1
    /\ j' = 0
    /\ cur' = NoCur
    /\ ret' = "none"
    /\ log' = <<>>
    /\ made' = <<>>
    /\ texts' = <<>>
    /\ UNCHANGED <<tree, nextKey, suppress>>

\* normalize of the container rule, up to the first editor operation
EnterContainerRule(err) ==
    /\ Enter("container", err)
    /\ IF containerNormalize(err.code) = "onlyLine"
       THEN /\ fn' = "onlyLine"
            /\ groups' = SelectSeq(
                    getSuccessiveNodes(tree[err.node].nodes,
                                       {k \in Keys(tree) : isNotLine(tree, k)}),
                    LAMBDA g : g # <<>>)
            /\ pc' = "ol_group"
            /\ ret' = "none"
       ELSE /\ fn' = "none"
            /\ groups' = <<>>
            /\ pc' = "done"
            /\ ret' = "undefined"

\* normalize of the line rule, up to the first editor operation
EnterLineRule(err) ==
    /\ Enter("line", err)
    /\ IF lineNormalize(err.code) = "noOrphanLine"
       THEN /\ fn' = "noOrphanLine"
            /\ groups' = getSuccessiveNodes(tree[err.parent].nodes,
                                            {k \in Keys(tree) : isLine(tree, k)})
            /\ pc' = "no_open"
            /\ ret' = "none"
       ELSE /\ fn' = "none"
            /\ groups' = <<>>
            /\ pc' = "done"
            /\ ret' = "undefined"

\* ------------------------------------------------------- the host's validator
\* Containers with a child that is no line (rule nodes: match type lineType).
BadContainers(t) ==
    {k \in Keys(t) : t[k].kind = containerType
                     /\ \E c \in Range(t[k].nodes) : t[c].kind # lineType}

\* Lines whose parent is no container (rule parent: type containerType).
OrphanLines(t) ==
    {k \in Keys(t) : t[k].kind = lineType /\ HasParent(t, k)
                     /\ t[getParent(t, k)].kind # containerType}

\* The code the validator gives the first offending child of a container.
ChildCode(t, k) ==
    LET bad == SelectSeq(t[k].nodes, LAMBDA c : t[c].kind # lineType)
    IN IF t[Head(bad)].kind = "text" THEN CHILD_OBJECT_INVALID
       ELSE CHILD_TYPE_INVALID

\* The code the validator gives a line under the parent p.
ParentCode(t, p) ==
    IF t[p].kind = "document" THEN PARENT_OBJECT_INVALID ELSE PARENT_TYPE_INVALID

\* The host picks a violation of one of the two rules and calls its normalize.
HostNormalize ==
    \/ \E k \in BadContainers(tree) :
            EnterContainerRule([code |-> ChildCode(tree, k), node |-> k,
                                parent |-> getParent(tree, k)])
    \/ \E k \in OrphanLines(tree) :
            EnterLineRule([code |-> ParentCode(tree, getParent(tree, k)), node |-> k,
                           parent |-> getParent(tree, k)])

NormalizeContainer ==
    \E err \in ContainerErrors(tree) : EnterContainerRule(err)

NormalizeLine ==
    \E err \in LineErrors(tree) : EnterLineRule(err)

\* Mutant: the key is made once per call of normalize, so that all nodes the
\* call creates carry the same key.
regenerateKey_Once ==
    (CHOOSE k \in Keys(snap) : \A m \in Keys(snap) : m <= k) + 1

\* node.regenerateKey(): the key of a node created by the repair.
regenerateKey == nextKey

\* ----------------------------------------------------------------- onlyLine
\* Mutant: the position is looked up in the child list as it was when the
\* violation was reported.
invalidNodeIndex_Stale(t, parentKey, first) ==
    IndexOf(snap[parentKey].nodes, first)

\* parent.nodes.indexOf(first): first is the node as it was in the snapshot,
\* compared by value with the live children.
invalidNodeIndex(t, parentKey, first) ==
    LET live == t[parentKey].nodes
        same == {i \in 1..Len(live) : live[i] = first /\ SameNode(t, snap, first)}
    IN IF same = {} THEN -1
       ELSE (CHOOSE i \in same : \A m \in same : i <= m) - 1

\* Mutant: every derived line is inserted at the position of the first.
insertIndex_NoOffset(base, index) == base

\* Position at which the index-th derived line is inserted.
insertIndex(base, index) == base + index

\* Mutant: only the text of the first node of the group is taken.
joinText_FirstOnly(nonLineGroup) == Text(snap, nonLineGroup[1])

\* nonLineGroup.map(x => x.text).join(''): the texts of the nodes of the
\* group, as they were handed over, put together with nothing between them.
joinText(nonLineGroup) ==
    Flatten([i \in 1..Len(nonLineGroup) |-> Text(snap, nonLineGroup[i])])

OnlyLineGroup ==
    /\ pc = "ol_group"
    /\ IF gi > Len(groups)
       THEN /\ pc' = "done"
            /\ ret' = "editor"
            /\ UNCHANGED <<cur, texts, made, suppress, log, j>>
       ELSE \E n \in 0..MaxDerived :
            LET nonLineGroup == groups[gi]
                text == joinText(nonLineGroup)
                first == nonLineGroup[1]
                parent == getParent(tree, first)
            IN /\ HasParent(tree, first)
               /\ cur' = [parent |-> parent,
                          index |-> invalidNodeIndex(tree, parent, first),
                          lines |-> deserializeCode(text, n),
                          container |-> -1]
               /\ texts' = Append(texts, text)
               /\ made' = Append(made, <<>>)
               /\ suppress' = suppress + 1
               /\ log' = Append(log, OpenOp)
               /\ j' = 0
               /\ pc' = "ol_insert"
               /\ ret' = ret
    /\ UNCHANGED <<tree, nextKey, rule, fn, error, snap, groups, gi>>

OnlyLineInsert ==
    /\ pc = "ol_insert"
    /\ j < Len(cur.lines)
    /\ cur.parent \in Keys(tree)
    /\ tree' = insertNodeByKey(tree, cur.parent, insertIndex(cur.index, j), regenerateKey,
                    [kind |-> lineType, text |-> cur.lines[j + 1], nodes |-> <<>>])
    /\ log' = Append(log, Op("insert", regenerateKey, cur.parent, insertIndex(cur.index, j)))
    /\ made' = [made EXCEPT ![gi] = Append(@, regenerateKey)]
    /\ nextKey' = nextKey + 1
    /\ j' = j + 1
    /\ UNCHANGED <<pc, rule, fn, error, snap, groups, gi, cur, suppress, ret, texts>>

OnlyLineInsertEnd ==
    /\ pc = "ol_insert"
    /\ j = Len(cur.lines)
    /\ suppress' = suppress - 1
    /\ log' = Append(log, CloseOp)
    /\ pc' = "ol_between"
    /\ UNCHANGED <<tree, nextKey, rule, fn, error, snap, groups, gi, j, cur, ret,
                   made, texts>>

OnlyLineRemoveBegin ==
    /\ pc = "ol_between"
    /\ suppress' = suppress + 1
    /\ log' = Append(log, OpenOp)
    /\ j' = 0
    /\ pc' = "ol_remove"
    /\ UNCHANGED <<tree, nextKey, rule, fn, error, snap, groups, gi, cur, ret,
                   made, texts>>

\* Mutant: only the first node of the group is removed.
removed_FirstOnly(nonLineGroup) == <<Head(nonLineGroup)>>

\* The nodes of the group that the removal loop visits.
removed(nonLineGroup) == nonLineGroup

OnlyLineRemove ==
    /\ pc = "ol_remove"
    /\ j < Len(removed(groups[gi]))
    /\ removed(groups[gi])[j + 1] \in Keys(tree)
    /\ tree' = removeNodeByKey(tree, removed(groups[gi])[j + 1])
    /\ log' = Append(log, Op("remove", removed(groups[gi])[j + 1], -1, -1))
    /\ j' = j + 1
    /\ UNCHANGED <<nextKey, pc, rule, fn, error, snap, groups, gi, cur, suppress,
                   ret, made, texts>>

OnlyLineRemoveEnd ==
    /\ pc = "ol_remove"
    /\ j = Len(removed(groups[gi]))
    /\ suppress' = suppress - 1
    /\ log' = Append(log, CloseOp)
    /\ gi' = gi + 1
    /\ pc' = "ol_group"
    /\ UNCHANGED <<tree, nextKey, rule, fn, error, snap, groups, j, cur, ret,
                   made, texts>>

\* ------------------------------------------------------------- noOrphanLine
NoOrphanOpen ==
    /\ pc = "no_open"
    /\ suppress' = suppress + 1
    /\ log' = Append(log, OpenOp)
    /\ pc' = "no_group"
    /\ UNCHANGED <<tree, nextKey, rule, fn, error, snap, groups, gi, j, cur, ret,
                   made, texts>>

\* parent.nodes.indexOf(group.first()): parent is error.parent, the node as
\* it was when the violation was reported.
firstLineIndex(group) == IndexOf(snap[error.parent].nodes, group[1])

\* Mutant: the scope is closed and opened again around every group.
NoOrphanGroup_ScopePerGroup ==
    /\ pc = "no_group"
    /\ gi <= Len(groups)
    /\ error.parent \in Keys(tree)
    /\ tree' = insertNodeByKey(tree, error.parent, firstLineIndex(groups[gi]), regenerateKey,
                    [kind |-> containerType, text |-> <<>>, nodes |-> <<>>])
    /\ log' = (IF gi > 1 THEN log \o <<CloseOp, OpenOp>> ELSE log) \o
               <<Op("insert", regenerateKey, error.parent, firstLineIndex(groups[gi]))>>
    /\ cur' = [parent |-> error.parent, index |-> firstLineIndex(groups[gi]),
               lines |-> <<>>, container |-> regenerateKey]
    /\ made' = Append(made, <<regenerateKey>>)
    /\ nextKey' = nextKey + 1
    /\ j' = 0
    /\ pc' = "no_move"
    /\ UNCHANGED <<rule, fn, error, snap, groups, gi, suppress, ret, texts>>

NoOrphanGroup ==
    /\ pc = "no_group"
    /\ gi <= Len(groups)
    /\ error.parent \in Keys(tree)
    /\ tree' = insertNodeByKey(tree, error.parent, firstLineIndex(groups[gi]), regenerateKey,
                    [kind |-> containerType, text |-> <<>>, nodes |-> <<>>])
    /\ log' = Append(log, Op("insert", regenerateKey, error.parent, firstLineIndex(groups[gi])))
    /\ cur' = [parent |-> error.parent, index |-> firstLineIndex(groups[gi]),
               lines |-> <<>>, container |-> regenerateKey]
    /\ made' = Append(made, <<regenerateKey>>)
    /\ nextKey' = nextKey + 1
    /\ j' = 0
    /\ pc' = "no_move"
    /\ UNCHANGED <<rule, fn, error, snap, groups, gi, suppress, ret, texts>>

\* Mutant: every line is moved to the front of the container.
moveIndex_Front(index) == 0

\* Position in the container to which the index-th line of the group moves.
moveIndex(index) == index

NoOrphanMove ==
    /\ pc = "no_move"
    /\ j < Len(groups[gi])
    /\ groups[gi][j + 1] \in Keys(tree)
    /\ tree' = moveNodeByKey(tree, groups[gi][j + 1], cur.container, moveIndex(j))
    /\ log' = Append(log, Op("move", groups[gi][j + 1], cur.container, moveIndex(j)))
    /\ j' = j + 1
    /\ IF j + 1 = Len(groups[gi])
       THEN pc' = "no_group" /\ gi' = gi + 1
       ELSE pc' = "no_move" /\ gi' = gi
    /\ UNCHANGED <<nextKey, rule, fn, error, snap, groups, cur, suppress, ret,
                   made, texts>>

NoOrphanClose ==
    /\ pc = "no_group"
    /\ gi > Len(groups)
    /\ suppress' = suppress - 1
    /\ log' = Append(log, CloseOp)
    /\ pc' = "done"
    /\ ret' = "undefined"
    /\ UNCHANGED <<tree, nextKey, rule, fn, error, snap, groups, gi, j, cur,
                   made, texts>>

Step ==
    \/ OnlyLineGroup
    \/ OnlyLineInsert
    \/ OnlyLineInsertEnd
    \/ OnlyLineRemoveBegin
    \/ OnlyLineRemove
    \/ OnlyLineRemoveEnd
    \/ NoOrphanOpen
    \/ NoOrphanGroup
    \/ NoOrphanMove
    \/ NoOrphanClose

Next ==
    \/ NormalizeContainer
    \/ NormalizeLine
    \/ Step
    \/ Discard

Spec == Init /\ [][Next]_vars

\* The host's repair loop: only violations the validator finds are handed
\* to the rules, and the loop keeps running while one is left.
LoopNext ==
    \/ HostNormalize
    \/ Step
    \/ Discard

LoopSpec == Init /\ [][LoopNext]_vars /\ WF_vars(LoopNext)

\* ======================================================== properties
Returned(f) == pc = "done" /\ fn = f

EditOps == {"insert", "remove", "move"}

\* The start positions of the maximal runs of members of P in s.
RunStarts(s, P) ==
    {i \in 1..Len(s) : s[i] \in P /\ (i = 1 \/ s[i - 1] \notin P)}

\* The maximal run of members of P that starts at position i of s.
RunAt(s, P, i) ==
    LET last == CHOOSE e \in i..Len(s) :
                    /\ \A m \in i..e : s[m] \in P
                    /\ (e = Len(s) \/ s[e + 1] \notin P)
    IN SubSeq(s, i, last)

\* The number of the run (1-based, left to right) that starts at position i.
RunNumber(s, P, i) == Cardinality({st \in RunStarts(s, P) : st <= i})

\* s with every maximal run of members of P replaced by repl[r], r the
\* number of the run; r beyond repl is replaced by nothing.
ReplaceRuns(s, P, repl) ==
    Flatten([i \in 1..Len(s) |->
        IF s[i] \notin P THEN <<s[i]>>
        ELSE IF i \in RunStarts(s, P) /\ RunNumber(s, P, i) <= Len(repl)
             THEN repl[RunNumber(s, P, i)]
             ELSE <<>>])

LinesOf(t) == {k \in Keys(t) : t[k].kind = lineType}
NonLinesOf(t) == {k \in Keys(t) : t[k].kind # lineType}

\* C1: after noOrphanLine returns, the parent's children are the original
\* children with every maximal run of lines replaced, at the run's place, by
\* one new container whose children are exactly that run, in order.
WrapOrderPreserved ==
    Returned("noOrphanLine") =>
        LET s == snap[error.parent].nodes
            P == LinesOf(snap)
        IN /\ Len(made) = Cardinality(RunStarts(s, P))
           /\ tree[error.parent].nodes = ReplaceRuns(s, P, made)
           /\ \A i \in RunStarts(s, P) :
                LET c == made[RunNumber(s, P, i)][1]
                IN /\ c \notin Keys(snap)
                   /\ tree[c].kind = containerType
                   /\ tree[c].nodes = RunAt(s, P, i)

\* C2: after onlyLine returns, the container's children are the original
\* children with every maximal run of non-lines replaced, at the run's
\* place, by the lines derived for it, in the order deserializeCode gave
\* them; the original lines are unchanged and keep their order.
ExtractOrderPreserved ==
    Returned("onlyLine") =>
        LET s == snap[error.node].nodes
            P == NonLinesOf(snap)
        IN /\ Len(made) = Cardinality(RunStarts(s, P))
           /\ tree[error.node].nodes = ReplaceRuns(s, P, made)
           /\ \A r \in 1..Len(made) :
                /\ Range(made[r]) \cap Keys(snap) = {}
                /\ [m \in 1..Len(made[r]) |-> tree[made[r][m]]] =
                   [m \in 1..Len(made[r]) |->
                        [kind |-> lineType,
                         text |-> deserializeCode(texts[r], Len(made[r]))[m],
                         nodes |-> <<>>]]
           /\ \A i \in 1..Len(s) :
                s[i] \notin P => s[i] \in Keys(tree) /\ tree[s[i]] = snap[s[i]]

\* C2 witness: onlyLine returned after replacing two runs, one of them by two
\* derived lines, with an original line between the runs.
ExtractOrderWitness ==
    /\ Returned("onlyLine")
    /\ Len(made) >= 2
    /\ \E r \in 1..Len(made) : Len(made[r]) = 2
    /\ \E c \in Range(tree[error.node].nodes) : c \in Keys(snap)

KindSets == SUBSET {containerType, lineType, "para", "text"}

\* C3: where normalize can be entered, for the child list of every node and
\* every predicate on the kind, the groups concatenate to the passing nodes
\* in their order, every group is non-empty and a contiguous slice of the
\* input, and there is no group when the input is empty or no node passes.
GrouperCorrect ==
    pc = "idle" => \A ks \in KindSets :
        LET P == {x \in Keys(tree) : tree[x].kind \in ks}
        IN /\ getSuccessiveNodes(<<>>, P) = <<>>
           /\ \A k \in {x \in Keys(tree) : tree[x].nodes # <<>>} :
                LET s == tree[k].nodes
                    G == getSuccessiveNodes(s, P)
                IN /\ Flatten(G) = SelectSeq(s, LAMBDA x : x \in P)
                   /\ \A g \in 1..Len(G) :
                        /\ G[g] # <<>>
                        /\ \E a \in 1..Len(s) :
                                G[g] = SubSeq(s, a, a + Len(G[g]) - 1)
                   /\ (\A i \in 1..Len(s) : s[i] \notin P) => G = <<>>

\* C3 witness: a repair runs on groups the grouper cut out of a child list
\* that held two runs with a failing node between them.
GrouperWitness ==
    /\ pc \in {"ol_group", "no_group"}
    /\ gi = 1
    /\ Len(groups) >= 2
    /\ \E g \in 1..Len(groups) : Len(groups[g]) >= 2

\* The violations of the two rules that the validator finds in t.
Valid(t) == BadContainers(t) = {} /\ OrphanLines(t) = {}

\* What each repair was called to fix is fixed when it returns.
RepairFixes ==
    /\ Returned("onlyLine") =>
            \A c \in Range(tree[error.node].nodes) : tree[c].kind = lineType
    /\ Returned("noOrphanLine") =>
            \A c \in Range(tree[error.parent].nodes) : tree[c].kind # lineType

\* The nodes the validator reports a violation in: the containers with a
\* non-line child and the parents of orphan lines.
Violating(t) == BadContainers(t) \cup {getParent(t, l) : l \in OrphanLines(t)}

RECURSIVE SumLen(_)
SumLen(gs) == IF gs = <<>> THEN 0 ELSE Len(Head(gs)) + SumLen(Tail(gs))

\* An upper bound of the number of steps the running repair has left.
StepsLeft ==
    LET rest == Skip(groups, Min(gi, Len(groups)))
        olRest == SumLen(rest) + Len(rest) * (MaxDerived + 4) + 1
        noRest == SumLen(rest) + Len(rest) + 1
        g == IF gi <= Len(groups) THEN Len(groups[gi]) ELSE 0
    IN CASE pc = "ol_group" ->
                IF gi <= Len(groups) THEN g + MaxDerived + 4 + olRest ELSE 1
         [] pc = "ol_insert" -> (Len(cur.lines) - j) + g + 3 + olRest
         [] pc = "ol_between" -> g + 2 + olRest
         [] pc = "ol_remove" -> (g - j) + 1 + olRest
         [] pc = "no_open" -> SumLen(groups) + Len(groups) + 2
         [] pc = "no_group" -> IF gi <= Len(groups) THEN g + 1 + noRest ELSE 1
         [] pc = "no_move" -> (g - j) + noRest
         [] OTHER -> 0

\* The rank of a state: the violations there were when the running repair
\* was entered (those of the tree when none runs), whether the loop is
\* between two repairs, and the steps the running repair has left.
Rank ==
    <<IF pc = "idle" THEN Cardinality(Violating(tree))
                     ELSE Cardinality(Violating(snap)),
      IF pc = "idle" THEN 1 ELSE 0,
      StepsLeft>>

LexLess(a, b) ==
    \/ a[1] < b[1]
    \/ a[1] = b[1] /\ a[2] < b[2]
    \/ a[1] = b[1] /\ a[2] = b[2] /\ a[3] < b[3]

\* Every behaviour of the loop comes to rest on a valid tree.
EventuallyValid == <>[](pc = "idle" /\ Valid(tree))

\* C4: no repair returns with the violation it was called for left in the
\* node it repaired; every step of the loop lowers a rank in a well-founded
\* order (a finished repair leaves fewer violating nodes than it found), and
\* the loop can step (the validator can hand over a violation, the running
\* repair can issue its next operation, the host can take the result) unless
\* it rests on a tree with neither violation: under the fairness of the loop
\* it reaches such a tree.
RepairLoopTerminates ==
    /\ []RepairFixes
    /\ [][LexLess(Rank', Rank)]_vars
    /\ [](/\ pc = "idle" => (Valid(tree) \/ CanEnter)
          /\ pc = "done" => ENABLED Discard
          /\ pc \notin {"idle", "done"} => ENABLED Step)

\* C4 witness: the loop has come to rest on a valid tree after a wrap (a
\* container younger than its lines) and an extraction (a key is gone).
RepairLoopWitness ==
    /\ pc = "idle"
    /\ Valid(tree)
    /\ \E c \in Keys(tree) : /\ tree[c].kind = containerType
                              /\ \E l \in Range(tree[c].nodes) : l < c
    /\ Cardinality(Keys(tree)) < nextKey

ChildCodes == {CHILD_OBJECT_INVALID, CHILD_TYPE_INVALID}
ParentCodes == {PARENT_OBJECT_INVALID, PARENT_TYPE_INVALID}

\* C5 as stated: the repair invoked depends on the code alone.
DispatchByCodeOnly ==
    pc # "idle" =>
        /\ error.code \in ChildCodes => fn = "onlyLine"
        /\ error.code \in ParentCodes => fn = "noOrphanLine"
        /\ error.code \notin ChildCodes \cup ParentCodes => fn = "none"

\* C5 amended: the container rule sends the two child codes to onlyLine,
\* the line rule sends the two parent codes to noOrphanLine, and every
\* other pair of rule and code invokes neither repair.
DispatchByRuleAndCode ==
    pc # "idle" =>
        fn = IF rule = "container" /\ error.code \in ChildCodes THEN "onlyLine"
             ELSE IF rule = "line" /\ error.code \in ParentCodes THEN "noOrphanLine"
             ELSE "none"

\* C5 witness: the normalize of the line rule was handed a child code,
\* called no repair and returned with the tree as it was.
DispatchWitness ==
    /\ pc = "done"
    /\ rule = "line"
    /\ error.code = CHILD_OBJECT_INVALID
    /\ fn = "none"
    /\ tree = snap

\* C6: normalize returns the editor when it ran a repair, and returns
\* undefined only when it ran none.
ReturnTellsHandled ==
    pc = "done" =>
        /\ fn # "none" => ret = "editor"
        /\ ret = "undefined" => fn = "none"

\* C7: onlyLine runs to its return without an operation failing, and after
\* it returns every child of the container is a line, also when
\* deserializeCode gave no line for a run.
OnlyLinesRemain ==
    /\ (fn = "onlyLine" /\ pc \notin {"idle", "done"}) => ENABLED Step
    /\ Returned("onlyLine") =>
            \A c \in Range(tree[error.node].nodes) : tree[c].kind = lineType

\* C7 witness: onlyLine returned after a run was removed with no replacement
\* and another run was replaced by derived lines.
OnlyLinesWitness ==
    /\ Returned("onlyLine")
    /\ \E r \in 1..Len(made) : made[r] = <<>>
    /\ \E r \in 1..Len(made) : made[r] # <<>>
    /\ tree # snap

Edits(l) == SelectSeq(l, LAMBDA o : o.op \in EditOps)

\* C8: on a container without a non-line child onlyLine issues no insert
\* and no remove, on a parent without a line child noOrphanLine issues no
\* insert and no move, an unhandled code issues nothing; the tree is then
\* the tree the call was given.
NoOpOnValid ==
    /\ (fn = "onlyLine" /\ pc # "idle"
            /\ \A c \in Range(snap[error.node].nodes) : snap[c].kind = lineType)
        => Edits(log) = <<>> /\ tree = snap
    /\ (fn = "noOrphanLine" /\ pc # "idle"
            /\ \A c \in Range(snap[error.parent].nodes) : snap[c].kind # lineType)
        => Edits(log) = <<>> /\ tree = snap
    /\ (fn = "none" /\ pc # "idle") => log = <<>> /\ tree = snap

\* C8 witness: noOrphanLine returned from a parent that has children, none
\* of them a line.
NoOpWitness ==
    /\ Returned("noOrphanLine")
    /\ snap[error.parent].nodes # <<>>
    /\ \A c \in Range(snap[error.parent].nodes) : snap[c].kind # lineType
    /\ tree = snap

Count(l, name) == Len(SelectSeq(l, LAMBDA o : o.op = name))

\* C9: in noOrphanLine every insert and every move is issued after the one
\* scope was opened and before it is closed; the scope stays open from the
\* first group to the last, so suppression is on in every state in which
\* the tree differs from the tree the call was given and the call has not
\* returned.
WrapSingleBatch ==
    fn = "noOrphanLine" =>
        /\ \A i \in 1..Len(log) :
                log[i].op \in EditOps =>
                    /\ Count(SubSeq(log, 1, i), "open") = 1
                    /\ Count(SubSeq(log, 1, i), "close") = 0
        /\ pc \in {"no_group", "no_move"} => suppress = 1
        /\ (tree # snap /\ pc # "done") => suppress >= 1
        /\ pc = "done" =>
                suppress = 0 /\ log = <<OpenOp>> \o Edits(log) \o <<CloseOp>>

\* C9 witness: noOrphanLine returned after wrapping two runs.
WrapSingleBatchWitness ==
    /\ Returned("noOrphanLine")
    /\ Len(groups) >= 2
    /\ Len(Edits(log)) >= 4
    /\ tree # snap

\* The running repair has another tree edit to issue.
MoreEdits ==
    \/ pc \in {"ol_insert", "ol_between", "no_move"}
    \/ pc = "ol_remove" /\ (j < Len(groups[gi]) \/ gi < Len(groups))
    \/ pc \in {"ol_group", "no_group"} /\ gi <= Len(groups)

\* C10: between the first and the last tree edit of a repair normalization
\* is suppressed.
NoReleaseMidRepair ==
    (pc \notin {"idle", "done"} /\ Edits(log) # <<>> /\ MoreEdits) => suppress >= 1

\* The places (parent, position) at which the key k is a child in t.
Places(t, k) ==
    {pi \in Keys(t) \X (1..Cardinality(Keys(t))) :
        pi[2] <= Len(t[pi[1]].nodes) /\ t[pi[1]].nodes[pi[2]] = k}

\* C11: a repair leaves alone what it does not repair. After noOrphanLine
\* the non-line children of the parent are still its children, the same
\* nodes in the same relative order, and every line of the original tree is
\* in the tree exactly once; after onlyLine the line children of the
\* container are still its children, the same nodes in the same order.
UntouchedPreserved ==
    /\ Returned("noOrphanLine") =>
            LET s == snap[error.parent].nodes
                nonLines == SelectSeq(s, LAMBDA x : x \in NonLinesOf(snap))
            IN /\ SelectSeq(tree[error.parent].nodes,
                            LAMBDA x : x \in Keys(snap)) = nonLines
               /\ \A i \in 1..Len(nonLines) : SameNode(snap, tree, nonLines[i])
               /\ \A l \in LinesOf(snap) :
                    /\ l \in Keys(tree)
                    /\ tree[l] = snap[l]
                    /\ Cardinality(Places(tree, l)) = 1
    /\ Returned("onlyLine") =>
            LET s == snap[error.node].nodes
                lines == SelectSeq(s, LAMBDA x : x \in LinesOf(snap))
            IN /\ SelectSeq(tree[error.node].nodes,
                            LAMBDA x : x \in Keys(snap)) = lines
               /\ \A i \in 1..Len(lines) : SameNode(snap, tree, lines[i])

\* C11 witness: noOrphanLine returned after wrapping two runs of a parent
\* that also held two non-line children.
UntouchedWitness ==
    /\ Returned("noOrphanLine")
    /\ Len(groups) >= 2
    /\ Cardinality(Range(snap[error.parent].nodes) \cap NonLinesOf(snap)) >= 2

\* C12: for every group noOrphanLine processes, the index at which the new
\* container is inserted is the index the group's first line has among the
\* parent's children in the live tree at that moment.
WrapInsertsAtLivePosition ==
    [][(pc = "no_group" /\ pc' = "no_move") =>
            cur'.index = IndexOf(tree[error.parent].nodes, groups[gi][1])]_vars

\* The start position of the r-th maximal run of members of P in s.
RunStart(s, P, r) == CHOOSE i \in RunStarts(s, P) : RunNumber(s, P, i) = r

\* The maximal runs of members of P in s, left to right.
RunSeq(s, P) ==
    [r \in 1..Cardinality(RunStarts(s, P)) |-> RunAt(s, P, RunStart(s, P, r))]

\* C13: the edits of onlyLine are, run after run from left to right, the
\* insertions of the run's derived lines followed by the removals of the
\* run's nodes, nothing of a later run before the last removal of an
\* earlier one; the r-th run's lines are inserted from the position its
\* first node has in the live tree, which is its original position shifted
\* by what the earlier runs removed and inserted.
ExtractOpsInOrder ==
    (fn = "onlyLine" /\ pc # "idle") =>
        LET s == snap[error.node].nodes
            P == NonLinesOf(snap)
            R == RunSeq(s, P)
            live(r) == RunStart(s, P, r) - 1 - SumLen(SubSeq(R, 1, r - 1))
                            + SumLen(SubSeq(made, 1, r - 1))
            nrem(r) == IF r < gi THEN Len(R[r])
                       ELSE IF pc = "ol_remove" THEN j ELSE 0
            ops(r) == [m \in 1..Len(made[r]) |->
                            Op("insert", made[r][m], error.node, live(r) + m - 1)]
                      \o [m \in 1..nrem(r) |-> Op("remove", R[r][m], -1, -1)]
        IN /\ Len(made) <= Len(R)
           /\ Edits(log) = Flatten([r \in 1..Len(made) |-> ops(r)])
           /\ (pc = "ol_insert" /\ j = 0) =>
                    /\ cur.index >= 0
                    /\ cur.index = IndexOf(tree[error.node].nodes, R[gi][1])
           /\ pc = "done" => Len(made) = Len(R)

\* C13 witness: onlyLine returned after two runs, the first replaced by a
\* number of lines other than its length, so that the second run's first
\* node was not at its original position when it was looked up.
ExtractOpsWitness ==
    /\ Returned("onlyLine")
    /\ Len(made) >= 2
    /\ Len(made[1]) # Len(groups[1])
    /\ Len(made[2]) >= 1

\* C14: where normalize can be entered, for the child list of every node and
\* every predicate on the kind, every group is a maximal run: the node just
\* before its first node and the node just after its last node, where there
\* is one, fail the predicate; no two groups are adjacent; and there are as
\* many groups as maximal runs of passing nodes.
GrouperMaximal ==
    pc = "idle" => \A ks \in KindSets :
        LET P == {x \in Keys(tree) : tree[x].kind \in ks}
        IN \A k \in {x \in Keys(tree) : tree[x].nodes # <<>>} :
            LET s == tree[k].nodes
                G == getSuccessiveNodes(s, P)
                a(g) == IndexOf(s, G[g][1]) + 1
                b(g) == a(g) + Len(G[g]) - 1
            IN /\ Len(G) = Cardinality(RunStarts(s, P))
               /\ \A g \in 1..Len(G) :
                    /\ G[g] # <<>>
                    /\ G[g] = SubSeq(s, a(g), b(g))
                    /\ a(g) > 1 => s[a(g) - 1] \notin P
                    /\ b(g) < Len(s) => s[b(g) + 1] \notin P
                    /\ g < Len(G) => a(g + 1) > b(g) + 1

\* C14 witness: a repair runs on groups cut out of a child list in which a
\* group of two or more nodes has a failing node on either side.
GrouperMaximalWitness ==
    /\ pc \in {"ol_group", "no_group"}
    /\ gi = 1
    /\ \E g \in 1..Len(groups) :
            LET s == snap[IF fn = "onlyLine" THEN error.node ELSE error.parent].nodes
                a == IndexOf(s, groups[g][1]) + 1
            IN /\ Len(groups[g]) >= 2
               /\ a > 1
               /\ a + Len(groups[g]) - 1 < Len(s)

\* C15: noOrphanLine creates one new container per run of lines, empty when
\* it is inserted; when noOrphanLine returns, the children of the r-th new
\* container are exactly the lines of the r-th run in their original order,
\* the i-th line at index i, with no line of another run and no non-line,
\* wherever the container was put.
WrapContainerContents ==
    /\ (fn = "noOrphanLine" /\ pc = "no_move" /\ j = 0) =>
            /\ cur.container \notin Keys(snap)
            /\ tree[cur.container] =
                    [kind |-> containerType, text |-> <<>>, nodes |-> <<>>]
    /\ Returned("noOrphanLine") =>
            LET R == RunSeq(snap[error.parent].nodes, LinesOf(snap))
                new == Keys(tree) \ Keys(snap)
            IN /\ Len(made) = Len(R)
               /\ \A r \in 1..Len(R) : Len(made[r]) = 1
               /\ new = {made[r][1] : r \in 1..Len(R)}
               /\ Cardinality(new) = Len(R)
               /\ \A r \in 1..Len(R) :
                    /\ tree[made[r][1]].kind = containerType
                    /\ tree[made[r][1]].nodes = R[r]
                    /\ \A i \in 1..Len(R[r]) :
                            /\ tree[R[r][i]].kind = lineType
                            /\ getParent(tree, R[r][i]) = made[r][1]

\* C15 witness: noOrphanLine returned after wrapping two runs, one of them
\* of two or more lines.
WrapContainerWitness ==
    /\ Returned("noOrphanLine")
    /\ Len(made) >= 2
    /\ \E r \in 1..Len(made) : Len(tree[made[r][1]].nodes) >= 2

\* C16: onlyLine hands deserializeCode one text per run of non-lines, once,
\* in the order of the runs: the texts of the run's nodes in their original
\* order with no separator, and nothing of another run.
ReparseInput ==
    (fn = "onlyLine" /\ pc # "idle") =>
        LET R == RunSeq(snap[error.node].nodes, NonLinesOf(snap))
        IN /\ Len(texts) <= Len(R)
           /\ pc = "done" => Len(texts) = Len(R)
           /\ pc \in {"ol_insert", "ol_between", "ol_remove"} => Len(texts) = gi
           /\ \A r \in 1..Len(texts) :
                /\ Len(texts[r]) = SumLen([i \in 1..Len(R[r]) |-> Text(snap, R[r][i])])
                /\ \A i \in 1..Len(R[r]) :
                        LET off == SumLen([m \in 1..(i - 1) |-> Text(snap, R[r][m])])
                            part == Text(snap, R[r][i])
                        IN SubSeq(texts[r], off + 1, off + Len(part)) = part

\* C16 witness: onlyLine returned after two runs, one of them of two or more
\* nodes with text.
ReparseInputWitness ==
    /\ Returned("onlyLine")
    /\ Len(texts) >= 2
    /\ \E r \in 1..Len(texts) :
            /\ Len(groups[r]) >= 2
            /\ \A i \in 1..Len(groups[r]) : Text(snap, groups[r][i]) # <<>>

\* All keys of the sequences of s, in order.
AllKeys(s) == Flatten(s)

\* C17: in every state the document is a tree with distinct keys: no child
\* list holds a key twice, no two nodes share a child, and the children of
\* all nodes are exactly the nodes other than the root, so that the root is
\* nobody's child and every other node has exactly one parent; the keys
\* of the nodes a repair has created are pairwise distinct and none of them
\* was a key of the tree the repair started from, and the tree holds no
\* other new key.
KeysUnique ==
    /\ LET parents == {p \in Keys(tree) : tree[p].nodes # <<>>}
       IN /\ \A p \in parents :
                /\ Cardinality(Range(tree[p].nodes)) = Len(tree[p].nodes)
                /\ \A q \in parents \ {p} :
                        Range(tree[p].nodes) \cap Range(tree[q].nodes) = {}
          /\ UNION {Range(tree[p].nodes) : p \in parents} = Keys(tree) \ {Root}
    /\ LET ks == AllKeys(made)
       IN /\ Cardinality(Range(ks)) = Len(ks)
          /\ Range(ks) \cap Keys(snap) = {}
          /\ Keys(tree) \subseteq Keys(snap) \cup Range(ks)

\* C17 witness: a repair that created two or more nodes has returned on a
\* tree that an earlier repair had edited: a node was removed from it, or a
\* node of it is younger than its child.
KeysUniqueWitness ==
    /\ pc = "done"
    /\ Len(AllKeys(made)) >= 2
    /\ \/ \E k \in 1..nextKey : k \notin Keys(snap) /\ \E m \in Keys(snap) : m > k
       \/ \E p \in Keys(snap) : \E c \in Range(snap[p].nodes) : c < p

\* C18: every edit is valid against the tree it is issued on: an insert or
\* a move names a parent of the tree and an index from 0 to the number of
\* children that parent has at that moment, a remove or a move names a node
\* of the tree, and the lookup of the position of a group's first node
\* never gives -1.
OpsWellFormed ==
    [][/\ Len(log') = Len(log) + 1 =>
            LET o == log'[Len(log')]
            IN /\ o.op \in {"insert", "move"} =>
                    /\ o.target \in Keys(tree)
                    /\ 0 <= o.index
                    /\ o.index <= Len(tree[o.target].nodes)
               /\ o.op \in {"remove", "move"} => o.key \in Keys(tree)
       /\ ((pc = "ol_group" /\ pc' = "ol_insert") \/
           (pc = "no_group" /\ pc' = "no_move")) => cur'.index >= 0]_vars

\* What a call of getSuccessiveNodes on u hands to its recursive call.
RecursiveArgument(u, P) ==
    LET afterNonLines == Skip(u, Len(takeUntil(u, P)))
    IN Skip(afterNonLines, Len(takeWhile(afterNonLines, P)))

\* C19: where normalize can be entered, for the child list of every node
\* and every predicate on the kind, the recursive grouper returns the groups
\* of the left-to-right scan that closes the current group at each failing
\* node, and on every suffix of the list (every argument a recursive call
\* can get) the sequence it hands on when it recurses is strictly shorter
\* than the one it got.
GrouperRefinement ==
    pc = "idle" => \A ks \in KindSets :
        LET P == {x \in Keys(tree) : tree[x].kind \in ks}
        IN /\ getSuccessiveNodes(<<>>, P) = iterativeGroups(<<>>, P)
           /\ \A k \in {x \in Keys(tree) : tree[x].nodes # <<>>} :
                /\ getSuccessiveNodes(tree[k].nodes, P) =
                        iterativeGroups(tree[k].nodes, P)
                /\ \A n \in 0..(Len(tree[k].nodes) - 1) :
                        LET u == Skip(tree[k].nodes, n)
                        IN Skip(u, Len(takeUntil(u, P))) # <<>> =>
                                Len(RecursiveArgument(u, P)) < Len(u)

\* C19 witness: a repair runs on three or more groups, which the grouper
\* returned after recursing at least twice.
GrouperRefinementWitness ==
    /\ pc \in {"ol_group", "no_group"}
    /\ gi = 1
    /\ Len(groups) >= 3
    /\ groups = iterativeGroups(
            snap[IF fn = "onlyLine" THEN error.node ELSE error.parent].nodes,
            IF fn = "onlyLine" THEN NonLinesOf(snap) ELSE LinesOf(snap))
====
